---- MODULE Spec2Model ----
(***************************************************************************)
(* State-machine model of static/app.js, the front end of the news         *)
(* aggregator: the feed store (originalNewsData / newsData), loadNews,     *)
(* translateNews, renderNews, the language / filter / theme / refresh      *)
(* handlers and the settings form.                                         *)
(*                                                                         *)
(* The page runs on one event loop.  An action is one task of that loop:   *)
(* a click handler, or the resumption of an async function after a         *)
(* network answer, run up to its next network await, together with the     *)
(* microtasks it triggers (the continuation of an awaiting caller, a       *)
(* finally callback).  `await fetch(..)` and the following                  *)
(* `await response.json()` are one suspension: nothing of the function     *)
(* runs between the two, and both failures reach the same catch.           *)
(***************************************************************************)
EXTENDS Integers, Sequences, FiniteSets, TLC

(* ------------------------------ bounds --------------------------------- *)
\* user clicks in one behaviour
MaxClicks == 2
\* batches of the longest feed the backend serves
MaxBatches == 3

(* ------------------------- program constants --------------------------- *)
batchSize == 10

(* ------------------------------ values --------------------------------- *)
\* a property that is absent from a JS object, an unset localStorage key
Undefined == "undefined"
Sources == <<"reddit", "rss">>
SourceSet == {Sources[k] : k \in 1..Len(Sources)}
Filters == {"all"} \cup SourceSet
Langs == {"en", "ru"}

Min(a, b) == IF a < b THEN a ELSE b

\* a feed item as the backend serves it; text stands for title/description/author
Item(u, s) == [url |-> u, source |-> s, text |-> "en"]
MkFeed(n, base) == [k \in 1..n |-> Item(base + k, Sources[(k % 2) + 1])]

\* the feeds /api/news may answer with: empty, less than a batch, two batches,
\* MaxBatches batches, and one whose second item has no source property
EmptyFeed == <<>>
SmallFeed == MkFeed(3, 100)
MidFeed == MkFeed(batchSize + 2, 200)
BigFeed == MkFeed((MaxBatches - 1) * batchSize + 5, 300)
BadFeed == <<Item(401, "rss"), Item(402, Undefined)>>
Feeds == {EmptyFeed, SmallFeed, MidFeed, BigFeed, BadFeed}
\* those of one batch
ShortFeeds == {EmptyFeed, SmallFeed, BadFeed}

\* answers to GET /api/news: the fetch rejects, the body is not JSON (or is
\* JSON null), the JSON object has no items, or it carries one of Feeds
LoadFailures == {"reject", "badJson"}

\* what /api/translate does to one item: the text fields are translated, url
\* and source are carried over
TranslateItem(item) == [item EXCEPT !.text = "ru"]
TranslateAll(s) == [k \in 1..Len(s) |-> TranslateItem(s[k])]

\* answers to one POST /api/translate:
\*   ok       {items: [...]}, 1:1 and in order with the batch sent
\*   short    {items: [...]}, the last item missing
\*   long     {items: [...]}, the last item twice
\*   noItems  a JSON object without items (an error body)
\*   throw    the fetch rejects or the body is not JSON
TranslateOutcomes == {"ok", "short", "long", "noItems", "throw"}
BackendItems(batch, outcome) ==
    CASE outcome = "ok" -> TranslateAll(batch)
      [] outcome = "short" -> TranslateAll(SubSeq(batch, 1, Len(batch) - 1))
      [] outcome = "long" -> TranslateAll(batch \o <<batch[Len(batch)]>>)

\* Array.prototype.slice(i, i + n), i counted from 0
\* slice stopping one item early
SliceShort(s, i, n) == SubSeq(s, i + 1, Min(i + n - 1, Len(s)))
Slice(s, i, n) == SubSeq(s, i + 1, Min(i + n, Len(s)))

VARIABLES
    booted,            \* DOMContentLoaded has run (listeners are set up)
    currentFilter,
    currentLang,
    currentTheme,
    localStorage,      \* [lang, theme]
    g,                 \* the feed store and the grid: [originalNewsData, newsData, newsGrid]
    refreshDisabled,   \* refreshBtn.disabled
    config,
    modalActive,       \* modalOverlay has class active
    inputs,            \* the .settings-input elements, in document order
    alerts,            \* alert() calls made
    calls,             \* the async calls made so far, each with its locals
    clicks,            \* user clicks so far
    langTrail          \* the languages the language button has switched to

vars == <<booted, currentFilter, currentLang, currentTheme, localStorage, g,
          refreshDisabled, config, modalActive, inputs, alerts, calls, clicks,
          langTrail>>

originalNewsData == g.originalNewsData
newsData == g.newsData
newsGrid == g.newsGrid

(* ------------------------------ rendering ------------------------------ *)
\* newsGrid.innerHTML: what the grid shows
Grid(kind, lang, pct, cards) == [kind |-> kind, lang |-> lang, pct |-> pct, cards |-> cards]

\* filterItems without the test for "all"
filterItemsNoAll(data, f) == SelectSeq(data, LAMBDA item : item.source = f)
filterItems(data, f) ==
    IF f = "all" THEN data ELSE SelectSeq(data, LAMBDA item : item.source = f)

\* createNewsCard: item.source.toUpperCase() throws a TypeError on an item
\* without source; every other field goes through escapeHtml or formatTimeAgo,
\* which accept an absent value
cardThrows(item) == item.source = Undefined

\* renderNews on the store gs (lines 200-211): the new store, and whether
\* createNewsCard threw before the grid was written
renderNews(gs, filter, lang) ==
    LET filtered == filterItems(gs.newsData, filter)
    IN  IF Len(filtered) = 0
        THEN [g |-> [gs EXCEPT !.newsGrid = Grid("noNews", lang, 0, <<>>)], threw |-> FALSE]
        ELSE IF \E k \in 1..Len(filtered) : cardThrows(filtered[k])
        THEN [g |-> gs, threw |-> TRUE]
        ELSE [g |-> [gs EXCEPT !.newsGrid = Grid("cards", lang, 0, filtered)], threw |-> FALSE]

(* ------------------------------ async calls ---------------------------- *)
\* One record per call of an async function.  kind, pc, status, parent,
\* origin, force, t, i, batch and translatedItems are the call's locals and
\* promise; the remaining fields record its history:
\*   snap        originalNewsData when the call started
\*   snapData    newsData when a loadNews call started
\*   outcomes    the answers a translateNews or saveSettings call's requests
\*               got, in order
\*   emitted     the progress percentages it wrote to the grid, in order
\*   superseded  a loadNews or a language switch started while it was pending
\*   interleaved another loadNews / translateNews / language switch took a
\*               step while it was pending
\*   sent        translation requests it has sent
\*   batches     the batches it has sent, in order
\*   caught      its catch block ran
\*   fresh       it has settled and no task has touched the calls since
NewCall(kind) ==
    [kind |-> kind, pc |-> "fetch", status |-> "pending", parent |-> 0,
     origin |-> "none", force |-> FALSE, t |-> "en", i |-> 0, batch |-> <<>>,
     translatedItems |-> <<>>, snap |-> <<>>, outcomes |-> <<>>,
     emitted |-> <<>>, superseded |-> FALSE, interleaved |-> FALSE, sent |-> 0,
     caught |-> FALSE, fresh |-> FALSE, snapData |-> <<>>, batches |-> <<>>]

\* a new call at the end of the calls
Push(cs, c) == [n \in 1..(Len(cs) + 1) |-> IF n <= Len(cs) THEN cs[n] ELSE c]

Pending(c) == c.status = "pending"
CallIds == 1..Len(calls)
InFlight(cs) == \E k \in 1..Len(cs) : cs[k].kind \in {"load", "translate"} /\ Pending(cs[k])
NoneInFlight == ~InFlight(calls)

\* record on every pending loadNews / translateNews call, those of except
\* aside, that another operation stepped
Mark(cs, sup, except) ==
    [n \in 1..Len(cs) |->
        IF cs[n].kind \in {"load", "translate"} /\ Pending(cs[n]) /\ n \notin except
        THEN [cs[n] EXCEPT !.interleaved = TRUE,
                           !.superseded = cs[n].superseded \/ sup]
        ELSE cs[n]]

\* The history of a settled call is kept until the next task that touches the
\* calls; from then on only its kind and the state of its promise remain.
Compact(c) == [NewCall(c.kind) EXCEPT !.status = c.status, !.pc = "done"]
Old(cs) == [n \in 1..Len(cs) |-> IF Pending(cs[n]) THEN cs[n] ELSE Compact(cs[n])]

\* a settled call keeps its history, not its locals
Settle(c, status) ==
    [c EXCEPT !.status = status, !.pc = "done", !.batch = <<>>,
              !.translatedItems = <<>>, !.fresh = TRUE]

(* ----------------------------- translateNews --------------------------- *)
\* Math.min(100, Math.round((i + batchSize) / originalNewsData.length * 100));
\* a division by 0 gives Infinity, and Math.round rounds halves up
progressOf(i, len) ==
    IF len = 0 THEN 100
    ELSE Min(100, (2 * (i + batchSize) * 100 + len) \div (2 * len))

\* translateCatch without the fallback to the originals
translateCatchPartial(c, gs, filter, lang) ==
    LET g1 == [gs EXCEPT !.newsData = c.translatedItems]
        r == renderNews(g1, filter, lang)
    IN  [g |-> r.g,
         call |-> Settle([c EXCEPT !.caught = TRUE],
                         IF r.threw THEN "rejected" ELSE "fulfilled")]

\* translateCatch passing the error on to the caller instead of rendering
translateCatchRethrow(c, gs, filter, lang) ==
    [g |-> [gs EXCEPT !.newsData = gs.originalNewsData],
     call |-> Settle([c EXCEPT !.caught = TRUE], "rejected")]

\* the catch block of translateNews (lines 183-187)
translateCatch(c, gs, filter, lang) ==
    LET g1 == [gs EXCEPT !.newsData = gs.originalNewsData]
        r == renderNews(g1, filter, lang)
    IN  [g |-> r.g,
         call |-> Settle([c EXCEPT !.caught = TRUE],
                         IF r.threw THEN "rejected" ELSE "fulfilled")]

\* translateLoop writing the result to originalNewsData instead of newsData
translateLoopClobber(c, gs, filter, lang) ==
    IF c.i < Len(gs.originalNewsData)
    THEN [g |-> gs,
          call |-> [c EXCEPT !.batch = Slice(gs.originalNewsData, c.i, batchSize),
                             !.pc = "fetch", !.sent = c.sent + 1,
                             !.batches = Append(c.batches,
                                                Slice(gs.originalNewsData, c.i, batchSize))]]
    ELSE LET g1 == [gs EXCEPT !.originalNewsData = c.translatedItems]
             r == renderNews(g1, filter, lang)
         IN  IF r.threw THEN translateCatch(c, r.g, filter, lang)
             ELSE [g |-> r.g, call |-> Settle(c, "fulfilled")]

\* translateLoop sending the request after the next one along with it
translateLoopPair(c, gs, filter, lang) ==
    IF c.i < Len(gs.originalNewsData)
    THEN [g |-> gs,
          call |-> [c EXCEPT !.batch = Slice(gs.originalNewsData, c.i, batchSize),
                             !.pc = "fetch",
                             !.sent = c.sent + (IF c.i + batchSize < Len(gs.originalNewsData)
                                                THEN 2 ELSE 1),
                             !.batches = Append(c.batches,
                                                Slice(gs.originalNewsData, c.i, batchSize))]]
    ELSE LET g1 == [gs EXCEPT !.newsData = c.translatedItems]
             r == renderNews(g1, filter, lang)
         IN  IF r.threw THEN translateCatch(c, r.g, filter, lang)
             ELSE [g |-> r.g, call |-> Settle(c, "fulfilled")]

\* the loop test of line 166 and what follows it: the next request is sent,
\* or the loop is left and lines 181-182 run (inside the try)
translateLoop(c, gs, filter, lang) ==
    IF c.i < Len(gs.originalNewsData)
    THEN [g |-> gs,
          call |-> [c EXCEPT !.batch = Slice(gs.originalNewsData, c.i, batchSize),
                             !.pc = "fetch", !.sent = c.sent + 1,
                             !.batches = Append(c.batches,
                                                Slice(gs.originalNewsData, c.i, batchSize))]]
    ELSE LET g1 == [gs EXCEPT !.newsData = c.translatedItems]
             r == renderNews(g1, filter, lang)
         IN  IF r.threw THEN translateCatch(c, r.g, filter, lang)
             ELSE [g |-> r.g, call |-> Settle(c, "fulfilled")]

\* translateNews() up to its first await (lines 157-168)
translateStart(gs, filter, lang, parent) ==
    LET g1 == [gs EXCEPT !.newsGrid = Grid("translating", lang, 0, <<>>)]
        c == [NewCall("translate") EXCEPT !.t = lang, !.parent = parent,
                                          !.snap = gs.originalNewsData]
    IN  translateLoop(c, g1, filter, lang)

\* translateNews resumed with the answer to its request (lines 168-179),
\* then the loop test again
translateResume(c, gs, filter, lang, outcome) ==
    LET c0 == [c EXCEPT !.outcomes = Append(c.outcomes, outcome)]
    IN  IF outcome = "throw" THEN translateCatch(c0, gs, filter, lang)
        ELSE LET items == IF outcome = "noItems" THEN c.batch
                          ELSE BackendItems(c.batch, outcome)
                 progress == progressOf(c.i, Len(gs.originalNewsData))
                 g1 == [gs EXCEPT !.newsGrid = Grid("progress", c.t, progress, <<>>)]
                 c1 == [c0 EXCEPT !.translatedItems = c.translatedItems \o items,
                                  !.emitted = Append(c.emitted, progress),
                                  !.i = c.i + batchSize]
             IN  translateLoop(c1, g1, filter, lang)

(* ------------------------------- loadNews ------------------------------ *)
\* the catch block of loadNews (lines 150-154)
loadCatch(gs, lang) == [gs EXCEPT !.newsGrid = Grid("error", lang, 0, <<>>)]

\* The continuation of the caller that awaits translate call tc (cs[k] is
\* that call, already updated): a loadNews settles, through its catch when
\* translateNews rejected; the language handler just ends.
\* Returns the calls and the store.
afterTranslate(cs, k, gs, lang) ==
    LET tc == cs[k]
        p == tc.parent
    IN  IF Pending(tc) \/ p = 0 THEN [calls |-> cs, g |-> gs]
        ELSE LET g1 == IF tc.status = "rejected" THEN loadCatch(gs, lang) ELSE gs
                 caller == [cs[p] EXCEPT !.caught = (tc.status = "rejected")]
             IN  [calls |-> [cs EXCEPT ![p] = Settle(caller, "fulfilled")],
                  g |-> g1]

\* refreshBtn is enabled again by the finally of line 112 once the loadNews
\* call the refresh handler made has settled
refreshPending(cs) ==
    \E k \in 1..Len(cs) : cs[k].kind = "load" /\ cs[k].origin = "refresh" /\ Pending(cs[k])

\* loadNews(forceRefresh) up to its await (lines 134-139)
loadStart(gs, lang, origin, force) ==
    [g |-> [gs EXCEPT !.newsGrid = Grid("loading", lang, 0, <<>>)],
     call |-> [NewCall("load") EXCEPT !.origin = origin, !.force = force,
                                      !.snap = gs.originalNewsData,
                                      !.snapData = gs.newsData]]

\* loadResume without the copy of line 142
loadResumeNoCopy(cs, k, gs, filter, lang, ans) ==
    IF ans.kind \in LoadFailures
    THEN LET g1 == loadCatch(gs, lang)
         IN  [calls |-> [cs EXCEPT ![k] = Settle([cs[k] EXCEPT !.caught = TRUE], "fulfilled")],
              g |-> g1]
    ELSE LET items == IF ans.kind = "noItems" THEN <<>> ELSE ans.items
             g1 == [gs EXCEPT !.originalNewsData = items]
             c1 == cs[k]
         IN  IF lang = "ru"
             THEN LET ts == translateStart(g1, filter, lang, k)
                      cs1 == Push([cs EXCEPT ![k] = [c1 EXCEPT !.pc = "awaitTranslate"]],
                                  ts.call)
                  IN  afterTranslate(cs1, Len(cs1), ts.g, lang)
             ELSE LET r == renderNews(g1, filter, lang)
                      g2 == IF r.threw THEN loadCatch(r.g, lang) ELSE r.g
                  IN  [calls |-> [cs EXCEPT ![k] = Settle([c1 EXCEPT !.caught = r.threw],
                                                           "fulfilled")],
                       g |-> g2]

\* loadNews resumed with the answer to GET /api/news (lines 139-154); k is
\* the call, cs the calls.  Returns the calls and the store.
loadResume(cs, k, gs, filter, lang, ans) ==
    IF ans.kind \in LoadFailures
    THEN LET g1 == loadCatch(gs, lang)
         IN  [calls |-> [cs EXCEPT ![k] = Settle([cs[k] EXCEPT !.caught = TRUE], "fulfilled")],
              g |-> g1]
    ELSE LET items == IF ans.kind = "noItems" THEN <<>> ELSE ans.items
             g1 == [gs EXCEPT !.originalNewsData = items, !.newsData = items]
             c1 == cs[k]
         IN  IF lang = "ru"
             THEN LET ts == translateStart(g1, filter, lang, k)
                      cs1 == Push([cs EXCEPT ![k] = [c1 EXCEPT !.pc = "awaitTranslate"]],
                                  ts.call)
                  IN  afterTranslate(cs1, Len(cs1), ts.g, lang)
             ELSE LET r == renderNews(g1, filter, lang)
                      g2 == IF r.threw THEN loadCatch(r.g, lang) ELSE r.g
                  IN  [calls |-> [cs EXCEPT ![k] = Settle([c1 EXCEPT !.caught = r.threw],
                                                           "fulfilled")],
                       g |-> g2]

LoadAnswers(feeds) ==
    {[kind |-> f, items |-> <<>>] : f \in LoadFailures \cup {"noItems"}}
        \cup {[kind |-> "items", items |-> F] : F \in feeds}

(* ------------------------------- settings ------------------------------ *)
\* config is {} until /api/config answers: a list that is not there has
\* def = FALSE
NoList == [def |-> FALSE, v |-> <<>>]
List(v) == [def |-> TRUE, v |-> v]
EmptyConfig == [subreddits |-> NoList, rss_feeds |-> NoList, hackernews_keywords |-> NoList]
ServerConfig ==
    [subreddits |-> List(<<"ai">>),
     rss_feeds |-> List(<<[name |-> "blog", url |-> "http://blog"]>>),
     hackernews_keywords |-> List(<<"llm">>)]
ConfigAnswers == {"ok", "noLists", "throw"}
SaveAnswers == {"ok", "httpError", "reject"}

\* what the user may type into a settings input
InputValues == {"", " ", "mit"}
Trim(v) == IF v = " " THEN "" ELSE v

\* the inputs drawn by renderSettingsLists (lines 252-280): `list || []`
inputsOf(type, n, value(_)) == [i \in 1..n |-> [type |-> type, index |-> i - 1, value |-> value(i)]]
renderSettingsLists(cfg) ==
    LET subs == cfg.subreddits.v
        rss == cfg.rss_feeds.v
        kws == cfg.hackernews_keywords.v
        rssIn(i) == <<[type |-> "rss_name", index |-> i - 1, value |-> rss[i].name],
                      [type |-> "rss_url", index |-> i - 1, value |-> rss[i].url]>>
        RECURSIVE rssAll(_)
        rssAll(i) == IF i > Len(rss) THEN <<>> ELSE rssIn(i) \o rssAll(i + 1)
    IN  inputsOf("subreddits", Len(subs), LAMBDA i : subs[i])
            \o rssAll(1)
            \o inputsOf("hackernews_keywords", Len(kws), LAMBDA i : kws[i])

\* arr[index] = value on a JS array: the inputs of one list carry the indices
\* 0, 1, .. in order, so index is at most arr.length and no hole arises
SetAt(v, index, value) ==
    IF index < Len(v) THEN [v EXCEPT ![index + 1] = value] ELSE Append(v, value)

\* one step of the forEach of lines 309-323: the config, and whether the
\* assignment threw a TypeError (a list, or an rss entry, that is not there)
collectOne(cfg, input) ==
    LET value == Trim(input.value)
        idx == input.index
    IN  CASE input.type = "subreddits" ->
                IF cfg.subreddits.def
                THEN [cfg |-> [cfg EXCEPT !.subreddits.v = SetAt(@, idx, value)], threw |-> FALSE]
                ELSE [cfg |-> cfg, threw |-> TRUE]
          [] input.type = "hackernews_keywords" ->
                IF cfg.hackernews_keywords.def
                THEN [cfg |-> [cfg EXCEPT !.hackernews_keywords.v = SetAt(@, idx, value)], threw |-> FALSE]
                ELSE [cfg |-> cfg, threw |-> TRUE]
          [] input.type = "rss_name" ->
                IF cfg.rss_feeds.def /\ idx < Len(cfg.rss_feeds.v)
                THEN [cfg |-> [cfg EXCEPT !.rss_feeds.v[idx + 1].name = value], threw |-> FALSE]
                ELSE [cfg |-> cfg, threw |-> TRUE]
          [] input.type = "rss_url" ->
                IF cfg.rss_feeds.def /\ idx < Len(cfg.rss_feeds.v)
                THEN [cfg |-> [cfg EXCEPT !.rss_feeds.v[idx + 1].url = value], threw |-> FALSE]
                ELSE [cfg |-> cfg, threw |-> TRUE]

RECURSIVE collect(_, _, _)
collect(cfg, ins, n) ==
    IF n > Len(ins) THEN [cfg |-> cfg, threw |-> FALSE]
    ELSE LET r == collectOne(cfg, ins[n])
         IN  IF r.threw THEN r ELSE collect(r.cfg, ins, n + 1)

\* lines 325-328: the three filters, each throwing on a list that is not there
filterConfig(cfg) ==
    IF ~cfg.subreddits.def THEN [cfg |-> cfg, threw |-> TRUE]
    ELSE LET c1 == [cfg EXCEPT !.subreddits.v = SelectSeq(@, LAMBDA s : s # "")]
         IN  IF ~c1.rss_feeds.def THEN [cfg |-> c1, threw |-> TRUE]
             ELSE LET c2 == [c1 EXCEPT !.rss_feeds.v =
                                  SelectSeq(@, LAMBDA f : f.name # "" /\ f.url # "")]
                  IN  IF ~c2.hackernews_keywords.def THEN [cfg |-> c2, threw |-> TRUE]
                      ELSE [cfg |-> [c2 EXCEPT !.hackernews_keywords.v =
                                          SelectSeq(@, LAMBDA s : s # "")],
                            threw |-> FALSE]

\* saveSettings up to its await (lines 307-335)
saveStart(cfg, ins) ==
    LET r == collect(cfg, ins, 1)
    IN  IF r.threw THEN r ELSE filterConfig(r.cfg)

\* addSettingsItem (lines 282-292), before the re-render
addItem(cfg, type) ==
    CASE type = "subreddits" -> [cfg EXCEPT !.subreddits = List(Append(@.v, ""))]
      [] type = "rss_feeds" -> [cfg EXCEPT !.rss_feeds = List(Append(@.v, [name |-> "", url |-> ""]))]
      [] type = "hackernews_keywords" -> [cfg EXCEPT !.hackernews_keywords = List(Append(@.v, ""))]

\* Array.prototype.splice(index, 1)
Splice1(v, index) == [i \in 1..(Len(v) - 1) |-> IF i <= index THEN v[i] ELSE v[i + 1]]
removeItem(cfg, type, index) ==
    CASE type = "subreddits" -> [cfg EXCEPT !.subreddits.v = Splice1(@, index)]
      [] type = "rss_feeds" -> [cfg EXCEPT !.rss_feeds.v = Splice1(@, index)]
      [] type = "hackernews_keywords" -> [cfg EXCEPT !.hackernews_keywords.v = Splice1(@, index)]
listDef(cfg, type) ==
    CASE type = "subreddits" -> cfg.subreddits.def
      [] type = "rss_feeds" -> cfg.rss_feeds.def
      [] type = "hackernews_keywords" -> cfg.hackernews_keywords.def
ListTypes == {"subreddits", "rss_feeds", "hackernews_keywords"}
listLen(cfg, type) ==
    CASE type = "subreddits" -> Len(cfg.subreddits.v)
      [] type = "rss_feeds" -> Len(cfg.rss_feeds.v)
      [] type = "hackernews_keywords" -> Len(cfg.hackernews_keywords.v)

(* -------------------------------- Init ---------------------------------- *)
\* The module-level state of lines 7-12.  localStorage holds what an earlier
\* session persisted (a stored "en" or "dark" reads as the default does), or
\* nothing.
Init ==
    /\ booted = FALSE
    /\ currentFilter = "all"
    /\ config = EmptyConfig
    /\ localStorage \in [lang : {"ru", Undefined}, theme : {Undefined}]
    /\ currentLang = (IF localStorage.lang = Undefined THEN "en" ELSE localStorage.lang)
    /\ currentTheme = (IF localStorage.theme = Undefined THEN "dark" ELSE localStorage.theme)
    /\ g = [originalNewsData |-> <<>>, newsData |-> <<>>,
            newsGrid |-> Grid("static", "en", 0, <<>>)]
    /\ refreshDisabled = FALSE
    /\ modalActive = FALSE
    /\ inputs = <<>>
    /\ alerts = 0
    /\ calls = <<>>
    /\ clicks = 0
    /\ langTrail = <<>>

(* ------------------------------- actions -------------------------------- *)
\* lines 47-53: applyTheme, updateLangButton, loadNews(), loadConfig(),
\* setupEventListeners
DOMContentLoaded ==
    /\ ~booted
    /\ booted' = TRUE
    /\ localStorage' = [localStorage EXCEPT !.theme = currentTheme]
    /\ LET ls == loadStart(g, currentLang, "init", FALSE)
       IN  /\ g' = ls.g
           /\ calls' = <<ls.call, NewCall("loadConfig")>>
    /\ UNCHANGED <<currentFilter, currentLang, currentTheme, refreshDisabled, config,
                   modalActive, inputs, alerts, clicks, langTrail>>

Click == booted /\ clicks < MaxClicks /\ clicks' = clicks + 1

\* lines 78-81 with applyTheme (55-65)
ThemeClick ==
    /\ Click
    /\ LET newTheme == IF currentTheme = "dark" THEN "light" ELSE "dark"
       IN  /\ currentTheme' = newTheme
           /\ localStorage' = [localStorage EXCEPT !.theme = newTheme]
    /\ UNCHANGED <<booted, currentFilter, currentLang, g, refreshDisabled, config,
                   modalActive, inputs, alerts, calls, langTrail>>

\* LangClick without line 87
LangClickNoPersist ==
    /\ Click
    /\ LET newLang == IF currentLang = "en" THEN "ru" ELSE "en"
           cs0 == Mark(Old(calls), TRUE, {})
       IN  /\ currentLang' = newLang
           /\ langTrail' = Append(langTrail, newLang)
           /\ IF newLang = "ru" /\ Len(originalNewsData) > 0
              THEN LET ts == translateStart(g, currentFilter, newLang, 0)
                   IN  g' = ts.g /\ calls' = Push(cs0, ts.call)
              ELSE IF newLang = "en"
              THEN LET r == renderNews([g EXCEPT !.newsData = g.originalNewsData],
                                       currentFilter, newLang)
                   IN  g' = r.g /\ calls' = cs0
              ELSE g' = g /\ calls' = cs0
    /\ UNCHANGED <<booted, currentFilter, currentTheme, refreshDisabled, config,
                   modalActive, inputs, alerts, localStorage>>

\* lines 84-96
LangClick ==
    /\ Click
    /\ LET newLang == IF currentLang = "en" THEN "ru" ELSE "en"
           cs0 == Mark(Old(calls), TRUE, {})
       IN  /\ currentLang' = newLang
           /\ localStorage' = [localStorage EXCEPT !.lang = newLang]
           /\ langTrail' = Append(langTrail, newLang)
           /\ IF newLang = "ru" /\ Len(originalNewsData) > 0
              THEN LET ts == translateStart(g, currentFilter, newLang, 0)
                   IN  g' = ts.g /\ calls' = Push(cs0, ts.call)
              ELSE IF newLang = "en"
              THEN LET r == renderNews([g EXCEPT !.newsData = g.originalNewsData],
                                       currentFilter, newLang)
                   IN  g' = r.g /\ calls' = cs0
              ELSE g' = g /\ calls' = cs0
    /\ UNCHANGED <<booted, currentFilter, currentTheme, refreshDisabled, config,
                   modalActive, inputs, alerts>>

\* lines 100-105; an exception of renderNews ends the handler
FilterClick(f) ==
    /\ Click
    /\ currentFilter' = f
    /\ g' = renderNews(g, f, currentLang).g
    /\ UNCHANGED <<booted, currentLang, currentTheme, localStorage, refreshDisabled,
                   config, modalActive, inputs, alerts, calls, langTrail>>

\* lines 109-116; a disabled button takes no click
RefreshClick ==
    /\ Click
    /\ ~refreshDisabled
    /\ refreshDisabled' = TRUE
    /\ LET ls == loadStart(g, currentLang, "refresh", TRUE)
       IN  /\ g' = ls.g
           /\ calls' = Push(Mark(Old(calls), TRUE, {}), ls.call)
    /\ UNCHANGED <<booted, currentFilter, currentLang, currentTheme, localStorage,
                   config, modalActive, inputs, alerts, langTrail>>

\* the answer to a loadNews call's GET /api/news arrives
LoadNewsResolve(k, ans) ==
    /\ calls[k].kind = "load" /\ calls[k].pc = "fetch"
    /\ \E r \in {loadResume(Mark(Old(calls), FALSE, {k}), k, g, currentFilter, currentLang, ans)} :
           /\ g' = r.g
           /\ calls' = r.calls
           /\ refreshDisabled' = refreshPending(r.calls)
    /\ UNCHANGED <<booted, currentFilter, currentLang, currentTheme, localStorage,
                   config, modalActive, inputs, alerts, clicks, langTrail>>

\* the answer to a translateNews call's POST /api/translate arrives
TranslateResolve(k, outcome) ==
    /\ calls[k].kind = "translate" /\ calls[k].pc = "fetch"
    /\ \E tr \in {translateResume(calls[k], g, currentFilter, currentLang, outcome)} :
       \E r \in {afterTranslate([Mark(Old(calls), FALSE, {k, calls[k].parent}) EXCEPT ![k] = tr.call],
                                k, tr.g, currentLang)} :
           /\ g' = r.g
           /\ calls' = r.calls
           /\ refreshDisabled' = refreshPending(r.calls)
    /\ UNCHANGED <<booted, currentFilter, currentLang, currentTheme, localStorage,
                   config, modalActive, inputs, alerts, clicks, langTrail>>

\* lines 190-197, resumed with the answer to GET /api/config
LoadConfigResolve(k, ans) ==
    /\ calls[k].kind = "loadConfig" /\ calls[k].pc = "fetch"
    /\ config' = (CASE ans = "ok" -> ServerConfig
                    [] ans = "noLists" -> EmptyConfig
                    [] ans = "throw" -> config)
    /\ calls' = [Old(calls) EXCEPT ![k] = [@ EXCEPT !.status = "fulfilled", !.pc = "done",
                                               !.fresh = TRUE,
                                               !.caught = (ans = "throw")]]
    /\ UNCHANGED <<booted, currentFilter, currentLang, currentTheme, localStorage, g,
                   refreshDisabled, modalActive, inputs, alerts, clicks, langTrail>>

\* lines 243-246
OpenSettings ==
    /\ Click
    /\ inputs' = renderSettingsLists(config)
    /\ modalActive' = TRUE
    /\ UNCHANGED <<booted, currentFilter, currentLang, currentTheme, localStorage, g,
                   refreshDisabled, config, alerts, calls, langTrail>>

\* lines 248-250 (modalClose, cancelBtn, or a click on the overlay)
CloseSettings ==
    /\ Click
    /\ modalActive
    /\ modalActive' = FALSE
    /\ UNCHANGED <<booted, currentFilter, currentLang, currentTheme, localStorage, g,
                   refreshDisabled, config, inputs, alerts, calls, langTrail>>

\* lines 282-294; the form's controls are used while the modal is shown
AddSettingsItem(type) ==
    /\ Click
    /\ modalActive
    /\ config' = addItem(config, type)
    /\ inputs' = renderSettingsLists(config')
    /\ UNCHANGED <<booted, currentFilter, currentLang, currentTheme, localStorage, g,
                   refreshDisabled, modalActive, alerts, calls, langTrail>>

\* lines 296-305, from the Remove button drawn beside input index of a list;
\* splice on a list that is not there throws and nothing is redrawn
RemoveSettingsItem(type, index) ==
    /\ Click
    /\ modalActive
    /\ \E n \in 1..Len(inputs) :
           /\ inputs[n].index = index
           /\ inputs[n].type = (IF type = "rss_feeds" THEN "rss_name" ELSE type)
    /\ IF ~listDef(config, type)
       THEN UNCHANGED <<config, inputs>>
       ELSE /\ config' = removeItem(config, type, index)
            /\ inputs' = renderSettingsLists(config')
    /\ UNCHANGED <<booted, currentFilter, currentLang, currentTheme, localStorage, g,
                   refreshDisabled, modalActive, alerts, calls, langTrail>>

\* the user types into one of the inputs
TypeInput(n, v) ==
    /\ Click
    /\ modalActive
    /\ n \in 1..Len(inputs)
    /\ inputs[n].value # v
    /\ inputs' = [inputs EXCEPT ![n].value = v]
    /\ UNCHANGED <<booted, currentFilter, currentLang, currentTheme, localStorage, g,
                   refreshDisabled, config, modalActive, alerts, calls, langTrail>>

\* saveBtn: saveSettings up to its await; a TypeError before the try block
\* rejects the call's promise at once
SaveClick ==
    /\ Click
    /\ modalActive
    /\ LET r == saveStart(config, inputs)
       IN  /\ config' = r.cfg
           /\ calls' = Push(Old(calls),
                  IF r.threw THEN [NewCall("save") EXCEPT !.status = "rejected", !.pc = "done",
                                                          !.fresh = TRUE]
                  ELSE NewCall("save"))
    /\ UNCHANGED <<booted, currentFilter, currentLang, currentTheme, localStorage, g,
                   refreshDisabled, modalActive, inputs, alerts, langTrail>>

\* saveSettings resumed with the answer to POST /api/config (lines 336-341):
\* fetch resolves on any HTTP status and rejects on a network failure
SaveResolve(k, ans) ==
    /\ calls[k].kind = "save" /\ calls[k].pc = "fetch"
    /\ LET done == [Old(calls) EXCEPT ![k] = [@ EXCEPT !.status = "fulfilled", !.pc = "done",
                                                  !.fresh = TRUE,
                                                  !.outcomes = <<ans>>,
                                                  !.caught = (ans = "reject")]]
       IN  IF ans = "reject"
           THEN /\ alerts' = alerts + 1
                /\ calls' = done
                /\ UNCHANGED <<modalActive, g>>
           ELSE LET ls == loadStart(g, currentLang, "save", TRUE)
                IN  /\ modalActive' = FALSE
                    /\ g' = ls.g
                    /\ calls' = Push(Mark(done, TRUE, {}), ls.call)
                    /\ UNCHANGED alerts
    /\ UNCHANGED <<booted, currentFilter, currentLang, currentTheme, localStorage,
                   refreshDisabled, config, inputs, clicks, langTrail>>

\* The whole page.  The backend serves a feed of one batch or fails, and a
\* translation request is answered 1:1 or fails.
PlainLoadAnswers == {[kind |-> "reject", items |-> <<>>], [kind |-> "items", items |-> SmallFeed]}
PlainOutcomes == {"ok", "throw"}
Next ==
    \/ DOMContentLoaded
    \/ ThemeClick
    \/ LangClick
    \/ \E f \in Filters : FilterClick(f)
    \/ RefreshClick
    \/ \E k \in CallIds, ans \in PlainLoadAnswers : LoadNewsResolve(k, ans)
    \/ \E k \in CallIds, outcome \in PlainOutcomes : TranslateResolve(k, outcome)
    \/ \E k \in CallIds, ans \in ConfigAnswers : LoadConfigResolve(k, ans)
    \/ OpenSettings
    \/ CloseSettings
    \/ \E type \in ListTypes : AddSettingsItem(type)
    \/ \E type \in ListTypes, index \in 0..MaxClicks : RemoveSettingsItem(type, index)
    \/ \E n \in 1..Len(inputs), v \in InputValues : TypeInput(n, v)
    \/ SaveClick
    \/ \E k \in CallIds, ans \in SaveAnswers : SaveResolve(k, ans)

Spec == Init /\ [][Next]_vars

\* The feed pipeline: the user keeps to the language, filter and refresh
\* buttons; the backend serves feeds of one batch, well formed or not, or
\* fails, and answers a translation request 1:1, without items, or fails.
AlignedOutcomes == {"ok", "noItems", "throw"}
NextFeed ==
    \/ DOMContentLoaded
    \/ LangClick
    \/ \E f \in Filters : FilterClick(f)
    \/ RefreshClick
    \/ \E k \in CallIds, ans \in LoadAnswers(ShortFeeds) : LoadNewsResolve(k, ans)
    \/ \E k \in CallIds, outcome \in AlignedOutcomes : TranslateResolve(k, outcome)

SpecFeed == Init /\ [][NextFeed]_vars

\* One page load with no click, the backend serving feeds of several batches:
\* translateNews runs when the stored language is "ru".
NextBatch ==
    \/ DOMContentLoaded
    \/ \E k \in CallIds, ans \in LoadAnswers(Feeds) : LoadNewsResolve(k, ans)
    \/ \E k \in CallIds, outcome \in TranslateOutcomes : TranslateResolve(k, outcome)

SpecBatch == Init /\ [][NextBatch]_vars

\* ... where every request is answered in the end
SpecBatchFair == SpecBatch /\ WF_vars(NextBatch)

\* Reloads during a translation: the user keeps to the refresh button, the
\* backend serves a feed of one batch or of two and answers a translation
\* request 1:1 or fails.
RaceLoadAnswers == {[kind |-> "items", items |-> F] : F \in {SmallFeed, MidFeed}}
NextRace ==
    \/ DOMContentLoaded
    \/ RefreshClick
    \/ \E k \in CallIds, ans \in RaceLoadAnswers : LoadNewsResolve(k, ans)
    \/ \E k \in CallIds, outcome \in PlainOutcomes : TranslateResolve(k, outcome)

SpecRace == Init /\ [][NextRace]_vars

(* ------------------------------ properties ----------------------------- *)
\* a translateNews call that has just settled: newsData is as it left it
Finished(k) == calls[k].kind = "translate" /\ calls[k].fresh
\* ... and no other operation stepped while it ran
Alone(k) == Finished(k) /\ ~calls[k].interleaved
\* the batch (counted from 1) that position p of a snapshot falls in
BatchOf(p) == ((p - 1) \div batchSize) + 1
NumBatches(snap) == (Len(snap) + batchSize - 1) \div batchSize
SameUrls(a, b) == Len(a) = Len(b) /\ \A p \in 1..Len(a) : a[p].url = b[p].url
Failed(outcome) == outcome \in {"throw", "noItems"}

\* C1: whenever no loadNews or translateNews call is in flight, newsData is as
\* long as originalNewsData.
C1_LengthInvariant == NoneInFlight => Len(newsData) = Len(originalNewsData)

\* C2: the task in which a translateNews run settles after a loadNews or a
\* language switch started during the run does not write newsData.
C2_NoStaleWrite ==
    [][\A k \in CallIds :
          (calls[k].kind = "translate" /\ Pending(calls[k]) /\ calls[k].superseded
              /\ ~Pending(calls'[k]))
          => newsData' = newsData]_vars

\* C3: after a run alone over n batches in which the request for batch j
\* failed and all the others succeeded, newsData holds the original items at
\* the positions of batch j and the translated items everywhere else.
C3_PartialFallback ==
    \A k \in CallIds :
        (/\ Alone(k)
         /\ Len(calls[k].outcomes) = NumBatches(calls[k].snap)
         /\ \E j \in 1..Len(calls[k].outcomes) :
               /\ Failed(calls[k].outcomes[j])
               /\ \A m \in 1..Len(calls[k].outcomes) : m # j => calls[k].outcomes[m] = "ok")
        => /\ Len(newsData) = Len(calls[k].snap)
           /\ \A p \in 1..Len(newsData) :
                 newsData[p] = IF Failed(calls[k].outcomes[BatchOf(p)])
                               THEN calls[k].snap[p]
                               ELSE TranslateItem(calls[k].snap[p])

\* C4: after a run alone in which every request was answered, some with an
\* items list of the wrong length, newsData is aligned with the snapshot, the
\* batches answered with a wrong length holding their original items.
C4_WrongLengthDetected ==
    \A k \in CallIds :
        (/\ Alone(k)
         /\ Len(calls[k].outcomes) = NumBatches(calls[k].snap)
         /\ \A m \in 1..Len(calls[k].outcomes) : calls[k].outcomes[m] \in {"ok", "short", "long"}
         /\ \E m \in 1..Len(calls[k].outcomes) : calls[k].outcomes[m] # "ok")
        => /\ Len(newsData) = Len(calls[k].snap)
           /\ \A p \in 1..Len(newsData) :
                 newsData[p] = IF calls[k].outcomes[BatchOf(p)] = "ok"
                               THEN TranslateItem(calls[k].snap[p])
                               ELSE calls[k].snap[p]

\* C5: after a run alone over a snapshot, whatever requests failed, with a
\* backend that answers the others 1:1 and in order, newsData has the length
\* of the snapshot and its url at every position.
C5_LengthAndOrder ==
    \A k \in CallIds :
        (/\ Alone(k)
         /\ \A m \in 1..Len(calls[k].outcomes) : calls[k].outcomes[m] \in {"ok", "noItems", "throw"})
        => SameUrls(newsData, calls[k].snap)

\* a run alone over several batches, one answered without items and the next
\* translated, has settled
C5_Witness ==
    \E k \in CallIds :
        /\ Alone(k)
        /\ Len(calls[k].snap) > 2 * batchSize
        /\ Len(calls[k].outcomes) = NumBatches(calls[k].snap)
        /\ calls[k].outcomes[1] = "ok"
        /\ calls[k].outcomes[2] = "noItems"
        /\ calls[k].outcomes[Len(calls[k].outcomes)] = "ok"
        /\ newsData # calls[k].snap
        /\ SameUrls(newsData, calls[k].snap)

\* C6: the progress percentages of a run over a non-empty feed never decrease
\* and the last one written before the run settles is 100.
C6_Progress ==
    \A k \in CallIds :
        (Finished(k) /\ Len(calls[k].snap) > 0)
        => /\ \A m \in 1..(Len(calls[k].emitted) - 1) :
                 calls[k].emitted[m] <= calls[k].emitted[m + 1]
           /\ Len(calls[k].emitted) > 0
           /\ calls[k].emitted[Len(calls[k].emitted)] = 100

\* C7: once the language button has switched to "ru" and then back to "en"
\* and nothing is in flight, newsData equals originalNewsData.
ToggledBack ==
    /\ Len(langTrail) >= 2
    /\ langTrail[Len(langTrail) - 1] = "ru"
    /\ langTrail[Len(langTrail)] = "en"
C7_ToggleRestores == (ToggledBack /\ NoneInFlight) => newsData = originalNewsData

\* C8: when a loadNews call, with no other operation stepping meanwhile, has
\* ended in its catch block, originalNewsData and newsData are what they were
\* when it started, and it has started no further loadNews.
C8_FailedLoadKeepsData ==
    \A k \in CallIds :
        (calls[k].kind = "load" /\ calls[k].fresh /\ calls[k].caught /\ ~calls[k].interleaved)
        => /\ originalNewsData = calls[k].snap
           /\ newsData = calls[k].snapData
           /\ \A j \in CallIds : j > k => calls[j].kind # "load"

\* C9: originalNewsData changes only in the task in which a loadNews call gets
\* a payload, and becomes that payload's items (none when the payload has no
\* items); every other task leaves it as it is.
C9_OriginalFrame ==
    [][originalNewsData' # originalNewsData
       => \E k \in CallIds :
             /\ calls[k].kind = "load" /\ calls[k].pc = "fetch"
             /\ calls'[k].pc # "fetch"
             /\ \E ans \in LoadAnswers(Feeds) :
                   /\ ans.kind \notin LoadFailures
                   /\ originalNewsData' = ans.items]_vars

\* translateNews has just replaced newsData by the translation and
\* originalNewsData is still the snapshot it started from
C9_Witness ==
    \E k \in CallIds :
        /\ Finished(k)
        /\ calls[k].outcomes = <<"ok">>
        /\ Len(originalNewsData) > 0
        /\ originalNewsData = calls[k].snap
        /\ newsData = TranslateAll(originalNewsData)

\* C10: a click on a filter button leaves newsData and originalNewsData alone
\* and draws: for "all" every item of newsData in order, for a source the
\* items of that source in their order in newsData -- the no-news message
\* when there is none, and nothing when one of them has no source.
RECURSIVE KeepSource(_, _)
KeepSource(data, f) ==
    IF data = <<>> THEN <<>>
    ELSE (IF Head(data).source = f THEN <<Head(data)>> ELSE <<>>) \o KeepSource(Tail(data), f)
Projection(data, f) == IF f = "all" THEN data ELSE KeepSource(data, f)
C10_FilterProjection ==
    [][\A f \in Filters :
          FilterClick(f)
          => /\ newsData' = newsData
             /\ originalNewsData' = originalNewsData
             /\ LET want == Projection(newsData, f)
                IN  IF \E p \in 1..Len(want) : want[p].source = Undefined
                    THEN newsGrid' = newsGrid
                    ELSE IF want = <<>> THEN newsGrid'.kind = "noNews"
                    ELSE newsGrid'.kind = "cards" /\ newsGrid'.cards = want]_vars

\* the grid shows the cards of one source, fewer than newsData holds
C10_Witness ==
    /\ currentFilter = "rss"
    /\ newsGrid.kind = "cards"
    /\ Len(newsGrid.cards) > 0
    /\ Len(newsGrid.cards) < Len(newsData)
    /\ newsGrid.cards = KeepSource(newsData, "rss")

\* every item has the source property createNewsCard reads
WellFormed(s) == \A p \in 1..Len(s) : s[p].source # Undefined

\* C11: when the only request of a run over a feed of one batch has failed,
\* translateNews has completed without rejecting, newsData equals
\* originalNewsData and the grid shows the feed (its cards, or the no-news
\* message under a filter that keeps none), not the error state.
C11_SingleBatchFallback ==
    \A k \in CallIds :
        (/\ Finished(k)
         /\ calls[k].outcomes = <<"throw">>
         /\ Len(calls[k].snap) \in 1..batchSize
         /\ WellFormed(originalNewsData))
        => /\ calls[k].status = "fulfilled"
           /\ newsData = originalNewsData
           /\ newsGrid.kind \in {"cards", "noNews"}
           /\ newsGrid.kind = "cards" => newsGrid.cards = Projection(originalNewsData, currentFilter)

\* the request of a run over the three-item feed failed and the grid shows
\* the three untranslated cards
C11_Witness ==
    \E k \in CallIds :
        /\ Alone(k)
        /\ calls[k].outcomes = <<"throw">>
        /\ calls[k].snap = SmallFeed
        /\ calls[k].status = "fulfilled"
        /\ newsData = SmallFeed
        /\ newsGrid.kind = "cards"
        /\ newsGrid.cards = SmallFeed

\* C12: the task in which a saveSettings call learns that its write failed
\* (the request rejected, or was answered with an error status) raises one
\* alert, leaves the modal as it is and starts no loadNews.
C12_FailedSaveKeepsModal ==
    [][\A k \in CallIds :
          (/\ calls[k].kind = "save" /\ Pending(calls[k])
           /\ ~Pending(calls'[k])
           /\ calls'[k].outcomes # <<"ok">>)
          => /\ alerts' = alerts + 1
             /\ modalActive' = modalActive
             /\ Len(calls') = Len(calls)]_vars

\* C13: a run alone has sent as many translation requests as its snapshot
\* has batches, whatever requests failed.
C13_AllBatchesSent ==
    \A k \in CallIds : Alone(k) => calls[k].sent = NumBatches(calls[k].snap)

\* C14: a translateNews call has one request outstanding while it is pending
\* and none once it has settled: the requests it has sent are the answers it
\* has received, plus one while it waits.
C14_OneOutstanding ==
    \A k \in CallIds :
        (calls[k].kind = "translate" /\ (Pending(calls[k]) \/ calls[k].fresh))
        => calls[k].sent - Len(calls[k].outcomes) = (IF Pending(calls[k]) THEN 1 ELSE 0)

\* a run waits for the answer to its third request, two answers received
C14_Witness ==
    \E k \in CallIds :
        /\ calls[k].kind = "translate" /\ Pending(calls[k])
        /\ calls[k].sent = 3
        /\ Len(calls[k].outcomes) = 2
        /\ calls[k].i = 2 * batchSize

\* the concatenation of a sequence of sequences
RECURSIVE Concat(_)
Concat(ss) == IF ss = <<>> THEN <<>> ELSE Head(ss) \o Concat(Tail(ss))

\* C15: the batches sent by a run alone that no rejected request cut short,
\* over a snapshot of n items, are ceil(n / 10) contiguous slices whose
\* concatenation is the snapshot, each of 10 items but the last, which has 1
\* to 10; none for an empty snapshot.
Uncut(k) == Alone(k) /\ \A m \in 1..Len(calls[k].outcomes) : calls[k].outcomes[m] # "throw"
C15_Partition ==
    \A k \in CallIds :
        Uncut(k)
        => /\ Len(calls[k].batches) = NumBatches(calls[k].snap)
           /\ calls[k].sent = Len(calls[k].batches)
           /\ Concat(calls[k].batches) = calls[k].snap
           /\ calls[k].snap = <<>> => calls[k].sent = 0
           /\ \A m \in 1..Len(calls[k].batches) :
                 IF m < Len(calls[k].batches)
                 THEN Len(calls[k].batches[m]) = batchSize
                 ELSE Len(calls[k].batches[m]) \in 1..batchSize

\* a run over a snapshot of several batches has sent them all, the last one
\* shorter than the others
C15_Witness ==
    \E k \in CallIds :
        /\ Uncut(k)
        /\ Len(calls[k].batches) >= 3
        /\ Len(calls[k].batches[1]) = batchSize
        /\ Len(calls[k].batches[Len(calls[k].batches)]) = 5
        /\ Concat(calls[k].batches) = calls[k].snap

\* a run over the empty snapshot has completed without a request
C15_WitnessEmpty ==
    \E k \in CallIds : Uncut(k) /\ calls[k].snap = <<>> /\ calls[k].sent = 0

\* what renderNews draws from data under filter f when no card throws
Drawn(grid, data, f) ==
    IF Projection(data, f) = <<>> THEN grid.kind = "noNews"
    ELSE grid.kind = "cards" /\ grid.cards = Projection(data, f)

\* C16: the task in which a loadNews call gets a payload sets
\* originalNewsData to the payload's items (none when it has no items) and
\* newsData to the same; when the language is then "ru" it starts a
\* translateNews over those items, otherwise it starts no call and draws the
\* items (the error state when one of those to draw has no source).
Payloads == {ans \in LoadAnswers(ShortFeeds) : ans.kind \notin LoadFailures}
C16_LoadSuccess ==
    [][\A k \in CallIds :
          (calls[k].kind = "load" /\ calls[k].pc = "fetch" /\ calls'[k].pc # "fetch")
          => \A ans \in Payloads :
                LoadNewsResolve(k, ans)
                => LET items == IF ans.kind = "noItems" THEN <<>> ELSE ans.items
                   IN  /\ originalNewsData' = items
                       /\ newsData' = items
                       /\ IF currentLang = "ru"
                          THEN /\ Len(calls') = Len(calls) + 1
                               /\ calls'[Len(calls')].kind = "translate"
                               /\ calls'[Len(calls')].parent = k
                               /\ calls'[Len(calls')].snap = items
                               /\ calls'[Len(calls')].sent = (IF items = <<>> THEN 0 ELSE 1)
                          ELSE /\ Len(calls') = Len(calls)
                               /\ ~Pending(calls'[k])
                               /\ IF WellFormed(Projection(items, currentFilter))
                                  THEN Drawn(newsGrid', items, currentFilter)
                                  ELSE newsGrid'.kind = "error"]_vars

\* a loadNews has been answered under "ru" with three items and its
\* translateNews waits for the answer to its request
C16_WitnessRu ==
    \E k \in CallIds :
        /\ calls[k].kind = "translate" /\ Pending(calls[k])
        /\ calls[k].parent # 0
        /\ calls[calls[k].parent].pc = "awaitTranslate"
        /\ calls[k].snap = SmallFeed
        /\ ~calls[k].interleaved
        /\ originalNewsData = SmallFeed /\ newsData = SmallFeed
        /\ currentLang = "ru"

\* C17: a click on the language button switches the language and stores it;
\* into "ru" it starts a translateNews over originalNewsData when that is not
\* empty and otherwise does nothing more; into "en" it sets newsData to
\* originalNewsData, draws it and starts no call.
C17_LangToggle ==
    [][LangClick
       => /\ currentLang' = (IF currentLang = "en" THEN "ru" ELSE "en")
          /\ localStorage'.lang = currentLang'
          /\ originalNewsData' = originalNewsData
          /\ IF currentLang' = "ru"
             THEN IF Len(originalNewsData) > 0
                  THEN /\ Len(calls') = Len(calls) + 1
                       /\ calls'[Len(calls')].kind = "translate"
                       /\ Pending(calls'[Len(calls')])
                       /\ calls'[Len(calls')].snap = originalNewsData
                       /\ calls'[Len(calls')].sent = 1
                       /\ newsData' = newsData
                  ELSE Len(calls') = Len(calls) /\ g' = g
             ELSE /\ Len(calls') = Len(calls)
                  /\ newsData' = originalNewsData
                  /\ IF WellFormed(Projection(originalNewsData, currentFilter))
                     THEN Drawn(newsGrid', originalNewsData, currentFilter)
                     ELSE newsGrid' = newsGrid]_vars

\* the button has switched to "ru" over a loaded feed and back to "en", and
\* the stored language is "en"
C17_Witness ==
    /\ ToggledBack
    /\ currentLang = "en" /\ localStorage.lang = "en"
    /\ Len(originalNewsData) > 0
    /\ newsData = originalNewsData
    /\ \E k \in CallIds : calls[k].kind = "translate" /\ calls[k].parent = 0

\* Math.round of x / n * 100 for naturals x and n > 0
RoundPct(x, n) == (2 * x * 100 + n) \div (2 * n)

\* C18: a run alone over n > 0 items has written one progress value per
\* answered request, failed or not, the m-th being
\* min(100, round(processed / n * 100)) with processed the items of the
\* first m batches.
C18_ProgressValues ==
    \A k \in CallIds :
        (Alone(k) /\ Len(calls[k].snap) > 0)
        => /\ Len(calls[k].emitted) = Len(calls[k].outcomes)
           /\ \A m \in 1..Len(calls[k].emitted) :
                 calls[k].emitted[m] =
                     Min(100, RoundPct(Min(m * batchSize, Len(calls[k].snap)),
                                       Len(calls[k].snap)))

\* C19: whenever no loadNews or translateNews call is in flight, every item
\* of newsData has the url of the item of originalNewsData at its position.
C19_NoMixedSnapshots ==
    NoneInFlight
    => \A p \in 1..Len(newsData) :
          p <= Len(originalNewsData) /\ newsData[p].url = originalNewsData[p].url

\* C20: once the page has started and no loadNews or translateNews call is
\* in flight, the grid shows the cards, the no-news message or the error
\* message, not a loading, translating or progress indicator.
C20_NoLeftoverIndicator ==
    (booted /\ NoneInFlight) => newsGrid.kind \in {"cards", "noNews", "error"}

\* C20, the other half: when every request is answered in the end, the page
\* comes to rest with no loadNews or translateNews call in flight.
C20_Termination == <>[](booted /\ NoneInFlight)

====
